---- MODULE Spec2Model ----
(***************************************************************************)
(* Model of vault_core/src/vault.rs: the Vault record, its accounting      *)
(* operations, its borsh encoding, and the SanitizedVault load/save        *)
(* protocol.                                                               *)
(*                                                                         *)
(* Scaling.  A byte is a digit in 0..ByteBase-1.  A u64 (and a u16) is two *)
(* little-endian digits, so U64_MAX = ByteBase^2 - 1; a Pubkey is one      *)
(* digit, Pubkey::default() being 0; the reserved block is ReservedLen     *)
(* digits.  All arithmetic of the code is checked arithmetic on that       *)
(* word, so every overflow case of the code exists in the scaled word.     *)
(***************************************************************************)
EXTENDS Integers, Sequences, FiniteSets, TLC

VARIABLES vault, account, handle, count, last

vars == <<vault, account, handle, count, last>>

\* ------------------------------------------------------------------ bounds
ByteBase == 3
ReservedLen == 1
MaxMutations == 1
MaxSaves == 1

\* ------------------------------------------------------------ scalar types
Bytes == 0..(ByteBase - 1)
U64_MAX == ByteBase * ByteBase - 1
U64 == 0..U64_MAX
U16 == 0..U64_MAX
Pubkeys == Bytes
PubkeyDefault == 0
KeySamples == {1, 2}

\* crate::AccountType: a borsh enum, one discriminant byte.  The largest
\* byte value is no variant, so decoding it fails.
AccountTypeVault == 1
AccountTypes == 0..(ByteBase - 2)

\* Option<u64> / Result<u64, VaultCoreError> / Result<_, ProgramError>
None == [some |-> FALSE, val |-> 0]
Some(x) == [some |-> TRUE, val |-> x]
Ok(x) == [ok |-> TRUE, val |-> x, err |-> "none"]
Err(e) == [ok |-> FALSE, val |-> 0, err |-> e]

\* ------------------------------------------------------------ Vault record
Vault == [account_type : Bytes, base : Pubkeys, lrt_mint : Pubkeys,
          supported_mint : Pubkeys, admin : Pubkeys, delegation_admin : Pubkeys,
          fee_owner : Pubkeys, mint_burn_authority : Pubkeys,
          capacity : U64, vault_index : U64, lrt_supply : U64,
          tokens_deposited : U64, deposit_fee_bps : U16,
          withdrawal_fee_bps : U16, reserved : [1..ReservedLen -> Bytes],
          bump : Bytes]

new_fee_owner_default(lrt_mint, supported_mint, admin, lrt_index, base, deposit_fee_bps, withdrawal_fee_bps, bump) ==
    [account_type |-> AccountTypeVault,
     base |-> base,
     lrt_mint |-> lrt_mint,
     supported_mint |-> supported_mint,
     admin |-> admin,
     delegation_admin |-> admin,
     fee_owner |-> PubkeyDefault,
     mint_burn_authority |-> PubkeyDefault,
     capacity |-> U64_MAX,
     vault_index |-> lrt_index,
     lrt_supply |-> 0,
     tokens_deposited |-> 0,
     deposit_fee_bps |-> deposit_fee_bps,
     withdrawal_fee_bps |-> withdrawal_fee_bps,
     reserved |-> [i \in 1..ReservedLen |-> 0],
     bump |-> bump]

new(lrt_mint, supported_mint, admin, lrt_index, base, deposit_fee_bps, withdrawal_fee_bps, bump) ==
    [account_type |-> AccountTypeVault,
     base |-> base,
     lrt_mint |-> lrt_mint,
     supported_mint |-> supported_mint,
     admin |-> admin,
     delegation_admin |-> admin,
     fee_owner |-> admin,
     mint_burn_authority |-> PubkeyDefault,
     capacity |-> U64_MAX,
     vault_index |-> lrt_index,
     lrt_supply |-> 0,
     tokens_deposited |-> 0,
     deposit_fee_bps |-> deposit_fee_bps,
     withdrawal_fee_bps |-> withdrawal_fee_bps,
     reserved |-> [i \in 1..ReservedLen |-> 0],
     bump |-> bump]

\* lines 120-126: the authority is absent while the field is the default key
mint_burn_authority(v) ==
    IF v.mint_burn_authority # PubkeyDefault THEN Some(v.mint_burn_authority)
    ELSE None

\* ------------------------------------------------------ checked arithmetic
checked_mul_wrapping(a, b) == Some((a * b) % (U64_MAX + 1))

checked_mul(a, b) == IF a * b > U64_MAX THEN None ELSE Some(a * b)

checked_div(a, b) == IF b = 0 THEN None ELSE Some(a \div b)

checked_add(a, b) == IF a + b > U64_MAX THEN None ELSE Some(a + b)

\* ------------------------------------------------------------- accounting
set_tokens_deposited_capped(v, tokens_deposited) ==
    [v EXCEPT !.tokens_deposited =
        IF tokens_deposited > v.capacity THEN v.capacity ELSE tokens_deposited]

set_tokens_deposited(v, tokens_deposited) ==
    [v EXCEPT !.tokens_deposited = tokens_deposited]

set_lrt_supply(v, lrt_supply) == [v EXCEPT !.lrt_supply = lrt_supply]

set_capacity(v, capacity) == [v EXCEPT !.capacity = capacity]

set_admin_as_base(v, admin) == [v EXCEPT !.base = admin]

set_admin(v, admin) == [v EXCEPT !.admin = admin]

set_delegation_admin(v, delegation_admin) ==
    [v EXCEPT !.delegation_admin = delegation_admin]

\* lines 135: which branch computes the amount to mint
first_deposit_by_supply(v) == v.lrt_supply = 0

first_deposit(v) == v.tokens_deposited = 0

\* lines 138-142: amount.checked_mul(lrt_supply)?.checked_div(tokens_deposited)?
pro_rata_div_first(v, amount) ==
    LET q == checked_div(amount, v.tokens_deposited)
    IN  IF q.some THEN checked_mul(q.val, v.lrt_supply) ELSE None

pro_rata_round_up(v, amount) ==
    LET p == checked_mul(amount, v.lrt_supply)
    IN  IF p.some /\ v.tokens_deposited # 0
        THEN Some((p.val + v.tokens_deposited - 1) \div v.tokens_deposited)
        ELSE None

pro_rata(v, amount) ==
    LET p == checked_mul(amount, v.lrt_supply)
    IN  IF p.some THEN checked_div(p.val, v.tokens_deposited) ELSE None

\* line 150: total_post_deposit > self.capacity
exceeds_capacity_pre(v, total_post_deposit) == v.tokens_deposited > v.capacity

exceeds_capacity_amount(v, total_post_deposit) ==
    total_post_deposit - v.tokens_deposited > v.capacity

exceeds_capacity(v, total_post_deposit) == total_post_deposit > v.capacity

\* The whole of deposit_and_mint_with_capacity_check: the record after the
\* call and the value returned.
deposit_and_mint_with_capacity_check(v, amount) ==
    LET mint  == IF first_deposit(v) THEN Some(amount) ELSE pro_rata(v, amount)
        total == checked_add(v.tokens_deposited, amount)
        supply == checked_add(v.lrt_supply, mint.val)
    IN  IF ~mint.some THEN [vault |-> v, res |-> Err("DepositOverflow")]
        ELSE IF ~total.some THEN [vault |-> v, res |-> Err("DepositOverflow")]
        ELSE IF exceeds_capacity(v, total.val)
             THEN [vault |-> v, res |-> Err("DepositExceedsCapacity")]
        ELSE IF ~supply.some THEN [vault |-> v, res |-> Err("DepositOverflow")]
        ELSE [vault |-> [v EXCEPT !.lrt_supply = supply.val,
                                  !.tokens_deposited = total.val],
              res |-> Ok(mint.val)]

increment_lrt_supply_wrapping(v, amount) ==
    LET s == (v.lrt_supply + amount) % (U64_MAX + 1)
    IN  [vault |-> [v EXCEPT !.lrt_supply = s], res |-> Ok(s)]

\* increment_lrt_supply: Option<u64>, None is reported as Err("None")
increment_lrt_supply(v, amount) ==
    LET s == checked_add(v.lrt_supply, amount)
    IN  IF s.some THEN [vault |-> [v EXCEPT !.lrt_supply = s.val], res |-> Ok(s.val)]
        ELSE [vault |-> v, res |-> Err("None")]

\* The divisor of the fee, 10_000 basis points, scaled with the word: one
\* byte's range, so that a rate (a u16) can be below, at or above it.
BPS_DENOMINATOR == ByteBase

\* calculate_deposit_fee / calculate_withdraw_fee: &self, the record is
\* returned as it was
calculate_deposit_fee_withdrawal_rate(v, lrt_amount) ==
    LET p == checked_mul(lrt_amount, v.withdrawal_fee_bps)
    IN  IF ~p.some THEN [vault |-> v, res |-> Err("FeeCalculationOverflow")]
        ELSE [vault |-> v, res |-> Ok(checked_div(p.val, BPS_DENOMINATOR).val)]

calculate_deposit_fee(v, lrt_amount) ==
    LET p == checked_mul(lrt_amount, v.deposit_fee_bps)
    IN  IF ~p.some THEN [vault |-> v, res |-> Err("FeeCalculationOverflow")]
        ELSE [vault |-> v, res |-> Ok(checked_div(p.val, BPS_DENOMINATOR).val)]

calculate_withdraw_fee(v, lrt_amount) ==
    LET p == checked_mul(lrt_amount, v.withdrawal_fee_bps)
    IN  IF ~p.some THEN [vault |-> v, res |-> Err("FeeCalculationOverflow")]
        ELSE [vault |-> v, res |-> Ok(checked_div(p.val, BPS_DENOMINATOR).val)]

is_struct_valid(v) == v.account_type = AccountTypeVault

\* ------------------------------------------------------- borsh encoding
\* integers little-endian fixed width
EncU64BigEndian(x) == <<x \div ByteBase, x % ByteBase>>

EncU64(x) == <<x % ByteBase, x \div ByteBase>>

DecU64(b) == b[1] + ByteBase * b[2]

\* #[derive(BorshSerialize)]: the fields in declaration order
serialize_zero_reserved(v) ==
    <<v.account_type, v.base, v.lrt_mint, v.supported_mint, v.admin,
      v.delegation_admin, v.fee_owner, v.mint_burn_authority>>
    \o EncU64(v.capacity) \o EncU64(v.vault_index)
    \o EncU64(v.lrt_supply) \o EncU64(v.tokens_deposited)
    \o EncU64(v.deposit_fee_bps) \o EncU64(v.withdrawal_fee_bps)
    \o [i \in 1..ReservedLen |-> 0] \o <<v.bump>>

serialize(v) ==
    <<v.account_type, v.base, v.lrt_mint, v.supported_mint, v.admin,
      v.delegation_admin, v.fee_owner, v.mint_burn_authority>>
    \o EncU64(v.capacity) \o EncU64(v.vault_index)
    \o EncU64(v.lrt_supply) \o EncU64(v.tokens_deposited)
    \o EncU64(v.deposit_fee_bps) \o EncU64(v.withdrawal_fee_bps)
    \o v.reserved \o <<v.bump>>

\* 8 one-byte fields, 4 u64, 2 u16, the reserved block, the bump
VaultLen == 8 + 4 * 2 + 2 * 2 + ReservedLen + 1

\* #[derive(BorshDeserialize)]: reads the fields from the front of the slice;
\* fails on a short slice or on a discriminant that is no AccountType;
\* bytes after the record are left unread.
deserialize(data) ==
    IF Len(data) < VaultLen \/ data[1] \notin AccountTypes
    THEN [ok |-> FALSE, vault |-> << >>]
    ELSE [ok |-> TRUE,
          vault |-> [account_type |-> data[1],
                     base |-> data[2],
                     lrt_mint |-> data[3],
                     supported_mint |-> data[4],
                     admin |-> data[5],
                     delegation_admin |-> data[6],
                     fee_owner |-> data[7],
                     mint_burn_authority |-> data[8],
                     capacity |-> DecU64(SubSeq(data, 9, 10)),
                     vault_index |-> DecU64(SubSeq(data, 11, 12)),
                     lrt_supply |-> DecU64(SubSeq(data, 13, 14)),
                     tokens_deposited |-> DecU64(SubSeq(data, 15, 16)),
                     deposit_fee_bps |-> DecU64(SubSeq(data, 17, 18)),
                     withdrawal_fee_bps |-> DecU64(SubSeq(data, 19, 20)),
                     reserved |-> SubSeq(data, 21, 20 + ReservedLen),
                     bump |-> data[21 + ReservedLen]]]

\* --------------------------------------------------- address derivation
\* Pubkey::create_program_address(["vault", base, [bump]], program_id): a
\* keyed hash of the seeds and the program id; the candidate that falls on
\* the curve is no program address and is reported as an error.
create_program_address(base, bump, program_id) ==
    LET h == (2 * program_id + base + bump) % (ByteBase + 1)
    IN  IF h = ByteBase THEN Err("InvalidSeeds") ELSE Ok(h)

\* ------------------------------------------------------------- the loader
NoVault == new(0, 0, 0, 0, 0, 0, 0, 0)

Loaded(v) == [res |-> Ok(0), vault |-> v]
Failed(e) == [res |-> Err(e), vault |-> NoVault]

\* lines 251-260: the two checks made before decoding
pre_decode_check_no_owner(program_id, acct) ==
    IF Len(acct.data) = 0 THEN Err("UninitializedAccount") ELSE Ok(0)

pre_decode_check_owner_first(program_id, acct) ==
    IF acct.owner # program_id THEN Err("IllegalOwner")
    ELSE IF Len(acct.data) = 0 THEN Err("UninitializedAccount")
    ELSE Ok(0)

pre_decode_check(program_id, acct) ==
    IF Len(acct.data) = 0 THEN Err("UninitializedAccount")
    ELSE IF acct.owner # program_id THEN Err("IllegalOwner")
    ELSE Ok(0)

\* lines 270-280: the record is at the address its seeds and bump derive
pda_check_unchecked(program_id, acct, state) == Ok(0)

pda_check_no_propagation(program_id, acct, state) ==
    LET expected_pubkey == create_program_address(state.base, state.bump, program_id)
    IN  IF expected_pubkey.ok /\ expected_pubkey.val = acct.key THEN Ok(0)
        ELSE Err("InvalidAccountData")

pda_check(program_id, acct, state) ==
    LET expected_pubkey == create_program_address(state.base, state.bump, program_id)
    IN  IF ~expected_pubkey.ok THEN Err(expected_pubkey.err)
        ELSE IF expected_pubkey.val # acct.key THEN Err("InvalidAccountData")
        ELSE Ok(0)

deserialize_checked(program_id, acct) ==
    LET pre   == pre_decode_check(program_id, acct)
        state == deserialize(acct.data)
    IN  IF ~pre.ok THEN Failed(pre.err)
        ELSE IF ~state.ok THEN Failed("BorshIoError")
        ELSE IF ~is_struct_valid(state.vault) THEN Failed("InvalidAccountData")
        ELSE IF ~pda_check(program_id, acct, state.vault).ok
             THEN Failed(pda_check(program_id, acct, state.vault).err)
        ELSE Loaded(state.vault)

\* lines 298-304: the writability requirement
writable_check_always(acct, expect_writable) == acct.is_writable

writable_check(acct, expect_writable) == expect_writable => acct.is_writable

sanitize(program_id, acct, expect_writable) ==
    IF ~writable_check(acct, expect_writable) THEN Failed("InvalidAccountData")
    ELSE deserialize_checked(program_id, acct)

\* borsh::to_writer(&mut data[..], &vault): writes the encoding over the
\* front of the slice; a slice too short takes the bytes that fit and the
\* write fails.
save_zeroing(data, v) ==
    LET enc == serialize_zero_reserved(v)
    IN  IF Len(data) >= Len(enc)
        THEN [data |-> enc \o SubSeq(data, Len(enc) + 1, Len(data)), res |-> Ok(0)]
        ELSE [data |-> SubSeq(enc, 1, Len(data)), res |-> Err("BorshIoError")]

save_max_deposited(data, v) ==
    LET old == deserialize(data)
        kept == IF old.ok /\ old.vault.tokens_deposited > v.tokens_deposited
                THEN old.vault.tokens_deposited ELSE v.tokens_deposited
        enc == serialize([v EXCEPT !.tokens_deposited = kept])
    IN  IF Len(data) >= Len(enc)
        THEN [data |-> enc \o SubSeq(data, Len(enc) + 1, Len(data)), res |-> Ok(0)]
        ELSE [data |-> SubSeq(enc, 1, Len(data)), res |-> Err("BorshIoError")]

save(data, v) ==
    LET enc == serialize(v)
    IN  IF Len(data) >= Len(enc)
        THEN [data |-> enc \o SubSeq(data, Len(enc) + 1, Len(data)), res |-> Ok(0)]
        ELSE [data |-> SubSeq(enc, 1, Len(data)), res |-> Err("BorshIoError")]

\* SanitizedVault::save on the handle's account: the write goes through
\* self.account.data whatever the account's flags are
save_account_checked(acct, v) ==
    IF acct.is_writable THEN save(acct.data, v)
    ELSE [data |-> acct.data, res |-> Err("InvalidAccountData")]

save_account(acct, v) == save(acct.data, v)

\* ------------------------------------------------------------------ state
\* vault   : a Vault operated on directly (Spec)
\* account : the AccountInfo handed to the loader (key, owner, is_writable, data)
\* handle  : the SanitizedVault values alive, at most one; << >> when none
\* count   : the mutations made through the handle, the saves made, and
\*           the record last saved (<< >> before the first save)
\* last    : the call that has just returned: its name, argument, the state
\*           it was made in, and what it returned; NoCall between calls
NoAccount == [key |-> 0, owner |-> 0, is_writable |-> FALSE, data |-> << >>]
NoCount == [mutations |-> 0, saves |-> 0, saved |-> << >>]
NoCall == [op |-> "none", arg |-> 0, pre |-> 0, res |-> Ok(0)]

\* One public operation of Vault applied to v: the record after it and the
\* value returned (Ok(0) for the setters, which return nothing).
VaultOp(op, arg, v) ==
    CASE op = "deposit_and_mint_with_capacity_check" ->
             deposit_and_mint_with_capacity_check(v, arg)
      [] op = "set_tokens_deposited" ->
             [vault |-> set_tokens_deposited(v, arg), res |-> Ok(0)]
      [] op = "set_lrt_supply" ->
             [vault |-> set_lrt_supply(v, arg), res |-> Ok(0)]
      [] op = "set_capacity" ->
             [vault |-> set_capacity(v, arg), res |-> Ok(0)]
      [] op = "set_admin" ->
             [vault |-> set_admin(v, arg), res |-> Ok(0)]
      [] op = "set_delegation_admin" ->
             [vault |-> set_delegation_admin(v, arg), res |-> Ok(0)]
      [] op = "increment_lrt_supply" ->
             increment_lrt_supply(v, arg)
      [] op = "calculate_deposit_fee" ->
             calculate_deposit_fee(v, arg)
      [] op = "calculate_withdraw_fee" ->
             calculate_withdraw_fee(v, arg)

\* ---------------------------------------------- Spec: the Vault record
NewVaults == {new(2, 1, 1, ByteBase, 1, 1, 2, ByteBase - 1)}

Init ==
    /\ vault \in NewVaults
    /\ account = NoAccount
    /\ handle = << >>
    /\ count = NoCount
    /\ last = NoCall

Call(op, arg) ==
    LET r == VaultOp(op, arg, vault)
    IN  /\ last.op = "none"
        /\ vault' = r.vault
        /\ last' = [op |-> op, arg |-> arg, pre |-> vault, res |-> r.res]
        /\ UNCHANGED <<account, handle, count>>

DepositAndMintWithCapacityCheck ==
    \E amount \in U64 : Call("deposit_and_mint_with_capacity_check", amount)

SetTokensDeposited == \E x \in U64 : Call("set_tokens_deposited", x)

SetLrtSupply == \E x \in U64 : Call("set_lrt_supply", x)

SetCapacity == \E x \in U64 : Call("set_capacity", x)

SetAdmin == \E k \in KeySamples : Call("set_admin", k)

SetDelegationAdmin == \E k \in KeySamples : Call("set_delegation_admin", k)

IncrementLrtSupply == \E x \in U64 : Call("increment_lrt_supply", x)

CalculateDepositFee == \E x \in U64 : Call("calculate_deposit_fee", x)

CalculateWithdrawFee == \E x \in U64 : Call("calculate_withdraw_fee", x)

\* the caller takes the value returned; the next call can be made
Return ==
    /\ last.op # "none"
    /\ last' = NoCall
    /\ UNCHANGED <<vault, account, handle, count>>

Next ==
    \/ DepositAndMintWithCapacityCheck
    \/ SetTokensDeposited
    \/ SetLrtSupply
    \/ SetCapacity
    \/ SetAdmin
    \/ SetDelegationAdmin
    \/ IncrementLrtSupply
    \/ CalculateDepositFee
    \/ CalculateWithdrawFee
    \/ Return

Spec == Init /\ [][Next]_vars

\* ------------------------------------------- FeeSpec: the fee functions
\* records built with every pair of fee rates, and the two fee calls
FeeInit ==
    /\ vault \in {new(2, 1, 1, ByteBase, 1, d, w, ByteBase - 1) : d \in U16, w \in U16}
    /\ account = NoAccount
    /\ handle = << >>
    /\ count = NoCount
    /\ last = NoCall

FeeNext ==
    \/ CalculateDepositFee
    \/ CalculateWithdrawFee
    \/ Return

FeeSpec == FeeInit /\ [][FeeNext]_vars

\* ------------------------- NewSpec: a record from Vault::new onwards
\* The arguments of Vault::new: every admin key, every deposit fee rate with
\* the smallest and the largest withdrawal fee rate.
NewArgs ==
    [lrt_mint : {2}, supported_mint : {1}, admin : Pubkeys,
     lrt_index : {ByteBase}, base : {1}, deposit_fee_bps : U16,
     withdrawal_fee_bps : {0, U64_MAX}, bump : {ByteBase - 1}]

\* Vault::new has just returned the record
NewInit ==
    /\ \E a \in NewArgs :
         /\ vault = new(a.lrt_mint, a.supported_mint, a.admin, a.lrt_index,
                        a.base, a.deposit_fee_bps, a.withdrawal_fee_bps, a.bump)
         /\ last = [op |-> "new", arg |-> a, pre |-> 0, res |-> Ok(0)]
    /\ account = NoAccount
    /\ handle = << >>
    /\ count = NoCount

\* deposits and capacity changes only
NewNext ==
    \/ DepositAndMintWithCapacityCheck
    \/ SetCapacity
    \/ Return

NewSpec == NewInit /\ [][NewNext]_vars

\* --------------------------------------- CodecSpec: encode, decode
\* Records that differ from one record in one field, the field taking every
\* value of its type.
CodecRecord ==
    [new(2, 1, 1, ByteBase, 1, 1, 2, ByteBase - 1)
        EXCEPT !.mint_burn_authority = 2, !.capacity = U64_MAX - 1,
               !.lrt_supply = 2, !.tokens_deposited = 1]

CodecVaults ==
    {[CodecRecord EXCEPT !.account_type = t] : t \in AccountTypes}
    \cup {[CodecRecord EXCEPT !.base = k] : k \in Pubkeys}
    \cup {[CodecRecord EXCEPT !.lrt_mint = k] : k \in Pubkeys}
    \cup {[CodecRecord EXCEPT !.supported_mint = k] : k \in Pubkeys}
    \cup {[CodecRecord EXCEPT !.admin = k] : k \in Pubkeys}
    \cup {[CodecRecord EXCEPT !.delegation_admin = k] : k \in Pubkeys}
    \cup {[CodecRecord EXCEPT !.fee_owner = k] : k \in Pubkeys}
    \cup {[CodecRecord EXCEPT !.mint_burn_authority = k] : k \in Pubkeys}
    \cup {[CodecRecord EXCEPT !.capacity = x] : x \in U64}
    \cup {[CodecRecord EXCEPT !.vault_index = x] : x \in U64}
    \cup {[CodecRecord EXCEPT !.lrt_supply = x] : x \in U64}
    \cup {[CodecRecord EXCEPT !.tokens_deposited = x] : x \in U64}
    \cup {[CodecRecord EXCEPT !.deposit_fee_bps = x] : x \in U16}
    \cup {[CodecRecord EXCEPT !.withdrawal_fee_bps = x] : x \in U16}
    \cup {[CodecRecord EXCEPT !.reserved = r] : r \in [1..ReservedLen -> Bytes]}
    \cup {[CodecRecord EXCEPT !.bump = b] : b \in Bytes}

CodecInit ==
    /\ vault \in CodecVaults
    /\ account = NoAccount
    /\ handle = << >>
    /\ count = NoCount
    /\ last = NoCall

\* BorshSerialize::serialize of the record into an empty buffer
Serialize ==
    /\ last.op = "none"
    /\ account.data = << >>
    /\ account' = [account EXCEPT !.data = serialize(vault)]
    /\ last' = [op |-> "serialize", arg |-> 0, pre |-> vault, res |-> Ok(0)]
    /\ UNCHANGED <<vault, handle, count>>

\* BorshDeserialize::deserialize of the buffer into a second record
Deserialize ==
    /\ last.op = "none"
    /\ account.data # << >>
    /\ handle = << >>
    /\ LET d == deserialize(account.data)
       IN  /\ handle' = IF d.ok THEN <<[vault |-> d.vault]>> ELSE << >>
           /\ last' = [op |-> "deserialize", arg |-> 0, pre |-> account,
                       res |-> IF d.ok THEN Ok(0) ELSE Err("BorshIoError")]
    /\ UNCHANGED <<vault, account, count>>

CodecNext ==
    \/ Serialize
    \/ Deserialize
    \/ Return

CodecSpec == CodecInit /\ [][CodecNext]_vars

\* ------------------------------------- LoadSpec: load, mutate, save
\* The records a buffer may hold when the loader is handed it: any bump, a
\* Vault or another AccountType, reserved bytes that are not all zero.
StoredVaults ==
    {[new(2, 1, 1, ByteBase, base, 1, 2, bump)
        EXCEPT !.account_type = t,
               !.reserved = [i \in 1..ReservedLen |-> 1],
               !.capacity = U64_MAX - 1,
               !.lrt_supply = 2,
               !.tokens_deposited = 1] :
        base \in KeySamples, bump \in Bytes, t \in {0, AccountTypeVault}}

\* The buffers: empty, an encoded record, one followed by further bytes, one
\* cut short, one whose discriminant byte is no AccountType.
Buffers ==
    {<< >>}
    \cup {serialize(v) : v \in StoredVaults}
    \cup {serialize(v) \o <<1>> : v \in {w \in StoredVaults : w.base = 1}}
    \cup {SubSeq(serialize(v), 1, VaultLen - 1) :
              v \in {w \in StoredVaults : w.base = 1 /\ w.bump = 0}}
    \cup {[serialize(v) EXCEPT ![1] = ByteBase - 1] :
              v \in {w \in StoredVaults : w.base = 1 /\ w.bump = 0}}

LoadInit ==
    /\ vault = NoVault
    /\ account \in [key : KeySamples, owner : KeySamples,
                    is_writable : BOOLEAN, data : Buffers]
    /\ handle = << >>
    /\ count = NoCount
    /\ last = NoCall

Sanitize ==
    \E program_id \in KeySamples, expect_writable \in BOOLEAN :
        LET r == sanitize(program_id, account, expect_writable)
        IN  /\ last.op = "none"
            /\ handle = << >>
            /\ handle' = IF r.res.ok THEN <<[vault |-> r.vault]>> ELSE << >>
            /\ count' = [count EXCEPT !.mutations = 0]
            /\ last' = [op |-> "sanitize",
                        arg |-> [program_id |-> program_id,
                                 expect_writable |-> expect_writable],
                        pre |-> account, res |-> r.res]
            /\ UNCHANGED <<vault, account>>

\* an operation of Vault made through vault_mut()
VaultMut(op, arg) ==
    /\ last.op = "none"
    /\ Len(handle) = 1
    /\ count.mutations < MaxMutations
    /\ LET r == VaultOp(op, arg, handle[1].vault)
       IN  /\ handle' = <<[vault |-> r.vault]>>
           /\ last' = [op |-> op, arg |-> arg, pre |-> handle[1].vault,
                       res |-> r.res]
    /\ count' = [count EXCEPT !.mutations = @ + 1]
    /\ UNCHANGED <<vault, account>>

MutDeposit ==
    \E amount \in {1, U64_MAX} :
        VaultMut("deposit_and_mint_with_capacity_check", amount)

MutSetTokensDeposited == \E x \in {U64_MAX} : VaultMut("set_tokens_deposited", x)

MutSetLrtSupply == \E x \in {ByteBase} : VaultMut("set_lrt_supply", x)

MutSetCapacity == \E x \in {ByteBase + 1} : VaultMut("set_capacity", x)

MutSetAdmin == \E k \in {2} : VaultMut("set_admin", k)

MutSetDelegationAdmin == \E k \in {2} : VaultMut("set_delegation_admin", k)

MutIncrementLrtSupply == \E x \in {1} : VaultMut("increment_lrt_supply", x)

Save ==
    /\ last.op = "none"
    /\ Len(handle) = 1
    /\ count.saves < MaxSaves
    /\ LET r == save_account(account, handle[1].vault)
       IN  /\ account' = [account EXCEPT !.data = r.data]
           /\ last' = [op |-> "save", arg |-> 0, pre |-> account, res |-> r.res]
           /\ count' = [count EXCEPT !.saves = @ + 1,
                                     !.saved = IF r.res.ok THEN <<handle[1].vault>>
                                               ELSE @]
    /\ UNCHANGED <<vault, handle>>

\* the SanitizedVault goes out of scope
Drop ==
    /\ last.op = "none"
    /\ Len(handle) = 1
    /\ handle' = << >>
    /\ last' = [op |-> "drop", arg |-> 0, pre |-> account, res |-> Ok(0)]
    /\ UNCHANGED <<vault, account, count>>

LoadNext ==
    \/ Sanitize
    \/ MutDeposit
    \/ MutSetTokensDeposited
    \/ MutSetLrtSupply
    \/ MutSetCapacity
    \/ MutSetAdmin
    \/ MutSetDelegationAdmin
    \/ MutIncrementLrtSupply
    \/ Save
    \/ Drop
    \/ Return

LoadSpec == LoadInit /\ [][LoadNext]_vars

\* ------------------------- RaceSpec: two handles on one account's buffer
\* Two SanitizedVault values hold the same &AccountInfo and each its own copy
\* of the record.  handle is the sequence of handles loaded, all of them before
\* the first save; vault is the record the buffer held at the start; count
\* keeps, per handle, the deposits made, the saves made and the amount
\* deposited with success, and the records saved, in order.
RaceCount ==
    [mutations |-> <<0, 0>>, saves |-> <<0, 0>>, saved |-> << >>,
     deposited |-> <<0, 0>>]

\* accounts that hold a record which loads under the owner's program id
RaceInit ==
    /\ account \in {a \in [key : Pubkeys, owner : KeySamples,
                            is_writable : BOOLEAN,
                            data : {serialize(v) : v \in StoredVaults}] :
                        sanitize(a.owner, a, FALSE).res.ok}
    /\ vault = deserialize(account.data).vault
    /\ handle = << >>
    /\ count = RaceCount
    /\ last = NoCall

RaceSanitize ==
    \E program_id \in KeySamples, expect_writable \in BOOLEAN :
        LET r == sanitize(program_id, account, expect_writable)
        IN  /\ last.op = "none"
            /\ Len(handle) < 2
            /\ Len(count.saved) = 0
            /\ handle' = IF r.res.ok THEN Append(handle, [vault |-> r.vault])
                         ELSE handle
            /\ last' = [op |-> "sanitize",
                        arg |-> [program_id |-> program_id,
                                 expect_writable |-> expect_writable],
                        pre |-> account, res |-> r.res]
            /\ UNCHANGED <<vault, account, count>>

\* handle i deposits through vault_mut()
RaceDeposit ==
    \E i \in 1..Len(handle), amount \in {0, 1, 2} :
        LET r == deposit_and_mint_with_capacity_check(handle[i].vault, amount)
        IN  /\ last.op = "none"
            /\ count.mutations[i] < MaxMutations
            /\ handle' = [handle EXCEPT ![i] = [vault |-> r.vault]]
            /\ count' = [count EXCEPT !.mutations[i] = @ + 1,
                                      !.deposited[i] = IF r.res.ok THEN @ + amount
                                                       ELSE @]
            /\ last' = [op |-> "deposit_and_mint_with_capacity_check",
                        arg |-> [handle |-> i, amount |-> amount],
                        pre |-> handle[i].vault, res |-> r.res]
            /\ UNCHANGED <<vault, account>>

\* handle i saves
RaceSave ==
    \E i \in 1..Len(handle) :
        LET r == save_account(account, handle[i].vault)
        IN  /\ last.op = "none"
            /\ count.saves[i] < MaxSaves
            /\ account' = [account EXCEPT !.data = r.data]
            /\ count' = [count EXCEPT !.saves[i] = @ + 1,
                                      !.saved = IF r.res.ok
                                                THEN Append(@, handle[i].vault)
                                                ELSE @]
            /\ last' = [op |-> "save", arg |-> i, pre |-> account, res |-> r.res]
            /\ UNCHANGED <<vault, handle>>

RaceNext ==
    \/ RaceSanitize
    \/ RaceDeposit
    \/ RaceSave
    \/ Return

RaceSpec == RaceInit /\ [][RaceNext]_vars

\* =================================================== properties of Spec
IsDeposit == last.op = "deposit_and_mint_with_capacity_check"

\* floor(amount * lrt_supply / tokens_deposited) over the unbounded integers
Floor(v, amount) == (amount * v.lrt_supply) \div v.tokens_deposited

\* The arithmetic steps the call evaluates, and whether one leaves the word:
\* the product (only when tokens_deposited # 0), tokens_deposited + amount,
\* and lrt_supply + minted (only once the capacity check has passed).  The
\* division has a non-zero divisor and a quotient no larger than the product.
MintOf(v, amount) == IF v.tokens_deposited = 0 THEN amount ELSE Floor(v, amount)

ProductOverflows(v, amount) ==
    v.tokens_deposited # 0 /\ amount * v.lrt_supply > U64_MAX

StepOverflows(v, amount) ==
    \/ ProductOverflows(v, amount)
    \/ v.tokens_deposited + amount > U64_MAX
    \/ /\ v.tokens_deposited + amount <= v.capacity
       /\ v.lrt_supply + MintOf(v, amount) > U64_MAX

\* C1 as stated: with tokens_deposited > 0 the deposit mints
\* floor(amount * lrt_supply / tokens_deposited), the product taken in a
\* wider intermediate, so that the call succeeds whenever the deposit fits
\* the capacity and the new supply fits the word.
C1_WideIntermediate ==
    (/\ IsDeposit
     /\ last.pre.tokens_deposited > 0
     /\ last.pre.tokens_deposited + last.arg <= last.pre.capacity
     /\ last.pre.lrt_supply + Floor(last.pre, last.arg) <= U64_MAX)
    => /\ last.res = Ok(Floor(last.pre, last.arg))
       /\ vault.tokens_deposited = last.pre.tokens_deposited + last.arg
       /\ vault.lrt_supply = last.pre.lrt_supply + Floor(last.pre, last.arg)

\* C1 amended: with tokens_deposited > 0, a deposit that succeeds mints
\* exactly floor(amount * lrt_supply / tokens_deposited) and adds amount and
\* the minted units to the two counters; the product is taken in the 64-bit
\* word itself: when it does not fit, the call fails with DepositOverflow;
\* when it fits, the deposit fits the capacity and the new supply fits the
\* word, the call succeeds.
C1_ProRataMint ==
    (IsDeposit /\ last.pre.tokens_deposited > 0)
    => /\ last.res.ok =>
            /\ last.arg * last.pre.lrt_supply <= U64_MAX
            /\ last.res.val = Floor(last.pre, last.arg)
            /\ vault.tokens_deposited = last.pre.tokens_deposited + last.arg
            /\ vault.lrt_supply = last.pre.lrt_supply + last.res.val
       /\ last.arg * last.pre.lrt_supply > U64_MAX
            => last.res = Err("DepositOverflow")
       /\ (/\ last.arg * last.pre.lrt_supply <= U64_MAX
           /\ last.pre.tokens_deposited + last.arg <= last.pre.capacity
           /\ last.pre.lrt_supply + Floor(last.pre, last.arg) <= U64_MAX)
            => last.res.ok

\* a successful pro-rata deposit whose quotient is rounded down
C1_Witness ==
    /\ IsDeposit
    /\ last.pre.tokens_deposited > 0
    /\ last.res.ok
    /\ last.res.val > 0
    /\ (last.arg * last.pre.lrt_supply) % last.pre.tokens_deposited # 0

\* C2 as stated: whenever tokens_deposited + amount > capacity the deposit
\* fails with DepositExceedsCapacity and leaves the record unchanged.
C2_AlwaysCapacityError ==
    (IsDeposit /\ last.pre.tokens_deposited + last.arg > last.pre.capacity)
    => /\ last.res = Err("DepositExceedsCapacity")
       /\ vault = last.pre

\* C2 amended: whenever tokens_deposited + amount > capacity the deposit
\* fails and leaves the record unchanged; the error is DepositExceedsCapacity
\* unless the product (taken when tokens_deposited # 0) or the sum
\* tokens_deposited + amount leaves the 64-bit word, and then it is
\* DepositOverflow.
C2_CapacityExceeded ==
    (IsDeposit /\ last.pre.tokens_deposited + last.arg > last.pre.capacity)
    => /\ ~last.res.ok
       /\ vault = last.pre
       /\ last.res.err =
            IF \/ ProductOverflows(last.pre, last.arg)
               \/ last.pre.tokens_deposited + last.arg > U64_MAX
            THEN "DepositOverflow" ELSE "DepositExceedsCapacity"

\* a deposit into a non-empty vault refused for the capacity alone
C2_Witness ==
    /\ IsDeposit
    /\ last.pre.tokens_deposited > 0
    /\ last.pre.tokens_deposited <= last.pre.capacity
    /\ last.pre.tokens_deposited + last.arg > last.pre.capacity
    /\ last.res = Err("DepositExceedsCapacity")

\* C3: in the state a successful deposit returns in, tokens_deposited is at
\* most capacity, whatever calls led to the state it was made in.
C3_WithinCapacity ==
    (IsDeposit /\ last.res.ok) => vault.tokens_deposited <= vault.capacity

\* a successful deposit that fills a lowered capacity exactly
C3_Witness ==
    /\ IsDeposit
    /\ last.res.ok
    /\ last.arg > 0
    /\ vault.capacity < U64_MAX
    /\ vault.tokens_deposited = vault.capacity

\* C4: when an arithmetic step the call evaluates leaves the 64-bit word,
\* the call fails with DepositOverflow and the record is unchanged; a call
\* that succeeds returns and stores the exact (unwrapped) results.
C4_OverflowFails ==
    IsDeposit
    => /\ StepOverflows(last.pre, last.arg)
            => (last.res = Err("DepositOverflow") /\ vault = last.pre)
       /\ last.res.ok
            => /\ last.res.val = MintOf(last.pre, last.arg)
               /\ vault.tokens_deposited = last.pre.tokens_deposited + last.arg
               /\ vault.lrt_supply = last.pre.lrt_supply + last.res.val
       /\ ~last.res.ok => vault = last.pre

\* the product overflows although the quotient and both sums would fit
C4_Witness ==
    /\ IsDeposit
    /\ ProductOverflows(last.pre, last.arg)
    /\ Floor(last.pre, last.arg) + last.pre.lrt_supply <= U64_MAX
    /\ last.pre.tokens_deposited + last.arg <= last.pre.capacity
    /\ last.res = Err("DepositOverflow")
    /\ vault = last.pre

\* C5: with tokens_deposited = 0 the deposit mints amount one for one
\* whatever lrt_supply is: it succeeds exactly when amount fits the capacity
\* and lrt_supply + amount fits the word, and then returns amount, sets
\* tokens_deposited to amount and lrt_supply to lrt_supply + amount.
C5_FirstDeposit ==
    (IsDeposit /\ last.pre.tokens_deposited = 0)
    => /\ last.res.ok <=> (/\ last.arg <= last.pre.capacity
                           /\ last.pre.lrt_supply + last.arg <= U64_MAX)
       /\ last.res.ok
            => /\ last.res.val = last.arg
               /\ vault.tokens_deposited = last.arg
               /\ vault.lrt_supply = last.pre.lrt_supply + last.arg

\* a one-for-one mint into a drained vault with receipt units outstanding
C5_Witness ==
    /\ IsDeposit
    /\ last.pre.tokens_deposited = 0
    /\ last.pre.lrt_supply > 1
    /\ last.arg > 1
    /\ last.res = Ok(last.arg)

\* =============================================== properties of LoadSpec
IsSanitize == last.op = "sanitize"

VaultOps ==
    {"deposit_and_mint_with_capacity_check", "set_tokens_deposited",
     "set_lrt_supply", "set_capacity", "set_admin", "set_delegation_admin",
     "increment_lrt_supply"}

\* the buffer decodes to a record that is a Vault
StructurallyValid(acct) ==
    /\ deserialize(acct.data).ok
    /\ deserialize(acct.data).vault.account_type = AccountTypeVault

\* the address derived from the record in the buffer, for a program id
Derived(acct, program_id) ==
    create_program_address(deserialize(acct.data).vault.base,
                           deserialize(acct.data).vault.bump, program_id)

AtDerivedAddress(acct, program_id) ==
    /\ Derived(acct, program_id).ok
    /\ Derived(acct, program_id).val = acct.key

\* The checks of a load in the order claimed, each with the error it reports
CheckFails(i, program_id, acct, expect_writable) ==
    CASE i = 1 -> expect_writable /\ ~acct.is_writable
      [] i = 2 -> Len(acct.data) = 0
      [] i = 3 -> acct.owner # program_id
      [] i = 4 -> ~deserialize(acct.data).ok
      [] i = 5 -> /\ deserialize(acct.data).ok
                  /\ deserialize(acct.data).vault.account_type # AccountTypeVault
      [] i = 6 -> /\ deserialize(acct.data).ok
                  /\ ~AtDerivedAddress(acct, program_id)

CheckError(i, program_id, acct) ==
    CASE i = 1 -> "InvalidAccountData"
      [] i = 2 -> "UninitializedAccount"
      [] i = 3 -> "IllegalOwner"
      [] i = 4 -> "BorshIoError"
      [] i = 5 -> "InvalidAccountData"
      [] i = 6 -> IF Derived(acct, program_id).ok THEN "InvalidAccountData"
                  ELSE Derived(acct, program_id).err

FailingChecks(program_id, acct, expect_writable) ==
    {i \in 1..6 : CheckFails(i, program_id, acct, expect_writable)}

FirstFailing(program_id, acct, expect_writable) ==
    CHOOSE i \in FailingChecks(program_id, acct, expect_writable) :
        \A j \in FailingChecks(program_id, acct, expect_writable) : i <= j

\* C6 as stated: a structurally valid, correctly owned buffer whose base and
\* bump do not derive to the address it was read from is rejected with
\* InvalidAccountData, for every bump stored in the record, also one for
\* which the derivation yields no address.
C6_AlwaysInvalidAccountData ==
    (/\ IsSanitize
     /\ StructurallyValid(last.pre)
     /\ last.pre.owner = last.arg.program_id
     /\ ~AtDerivedAddress(last.pre, last.arg.program_id))
    => (last.res = Err("InvalidAccountData") /\ handle = << >>)

\* C6 amended: such a buffer is always rejected and no handle is made; the
\* error is InvalidAccountData when the derivation yields an address (or the
\* writability requirement has failed first); when the derivation yields no
\* address for the stored bump, the load returns the derivation's own error
\* (InvalidSeeds).
C6_AddressMismatchRejected ==
    (/\ IsSanitize
     /\ StructurallyValid(last.pre)
     /\ last.pre.owner = last.arg.program_id
     /\ ~AtDerivedAddress(last.pre, last.arg.program_id))
    => /\ ~last.res.ok
       /\ handle = << >>
       /\ last.res.err =
            IF last.arg.expect_writable /\ ~last.pre.is_writable
            THEN "InvalidAccountData"
            ELSE IF Derived(last.pre, last.arg.program_id).ok
            THEN "InvalidAccountData"
            ELSE "InvalidSeeds"

\* a valid, owned record at another address than the one it derives
C6_Witness ==
    /\ IsSanitize
    /\ StructurallyValid(last.pre)
    /\ last.pre.owner = last.arg.program_id
    /\ last.arg.expect_writable => last.pre.is_writable
    /\ Derived(last.pre, last.arg.program_id).ok
    /\ Derived(last.pre, last.arg.program_id).val # last.pre.key
    /\ last.res = Err("InvalidAccountData")
    /\ handle = << >>

\* C7 as stated: a structurally valid buffer whose owner is not the program
\* id is rejected with IllegalOwner, for either value of expect_writable and
\* of the buffer's writable flag.
C7_AlwaysIllegalOwner ==
    (/\ IsSanitize
     /\ StructurallyValid(last.pre)
     /\ last.pre.owner # last.arg.program_id)
    => (last.res = Err("IllegalOwner") /\ handle = << >>)

\* C7 amended: such a buffer is always rejected and no handle is made; the
\* error is IllegalOwner, except that when writability is required and the
\* buffer is not flagged writable the load has already failed with
\* InvalidAccountData.
C7_IllegalOwnerRejected ==
    (/\ IsSanitize
     /\ StructurallyValid(last.pre)
     /\ last.pre.owner # last.arg.program_id)
    => /\ ~last.res.ok
       /\ handle = << >>
       /\ last.res.err =
            IF last.arg.expect_writable /\ ~last.pre.is_writable
            THEN "InvalidAccountData" ELSE "IllegalOwner"

\* a valid record at its derived address, refused for its owner alone
C7_Witness ==
    /\ IsSanitize
    /\ StructurallyValid(last.pre)
    /\ AtDerivedAddress(last.pre, last.arg.program_id)
    /\ last.pre.owner # last.arg.program_id
    /\ last.res = Err("IllegalOwner")
    /\ handle = << >>

\* C8: sanitize returns the error of the first check that fails, in the
\* order writability (when required), non-empty, ownership, decode,
\* structural validity, address; it succeeds when none fails; and without
\* the writability requirement the writable flag does not change the result.
C8_FirstFailureWins ==
    IsSanitize
    => /\ IF FailingChecks(last.arg.program_id, last.pre,
                           last.arg.expect_writable) = {}
          THEN last.res.ok
          ELSE last.res =
                 Err(CheckError(FirstFailing(last.arg.program_id, last.pre,
                                             last.arg.expect_writable),
                                last.arg.program_id, last.pre))
       /\ ~last.arg.expect_writable
            => last.res =
                 sanitize(last.arg.program_id,
                          [last.pre EXCEPT !.is_writable = ~@], FALSE).res

\* an empty buffer with the wrong owner reports the earlier of the two
C8_Witness ==
    /\ IsSanitize
    /\ last.arg.expect_writable => last.pre.is_writable
    /\ Len(last.pre.data) = 0
    /\ last.pre.owner # last.arg.program_id
    /\ last.res = Err("UninitializedAccount")

\* C9: a load makes a handle exactly when every check passes, the handle
\* then holds the record decoded from the buffer; a load that fails makes
\* none; and a load, passed or failed, leaves the account's bytes as they
\* were.
C9_HandleOnlyWhenAllPass ==
    IsSanitize
    => /\ last.res.ok <=> FailingChecks(last.arg.program_id, last.pre,
                                        last.arg.expect_writable) = {}
       /\ last.res.ok => handle = <<[vault |-> deserialize(last.pre.data).vault]>>
       /\ ~last.res.ok => handle = << >>
       /\ account = last.pre

\* a load that passed the first five checks and failed the last
C9_Witness ==
    /\ IsSanitize
    /\ FailingChecks(last.arg.program_id, last.pre, last.arg.expect_writable) = {6}
    /\ ~last.res.ok
    /\ handle = << >>
    /\ account.data = last.pre.data
    /\ Len(account.data) > 0

\* C10: an operation made through vault_mut changes the handle's record only
\* and leaves the account as it was; save always succeeds, whatever the
\* record holds, leaves the handle as it was and overwrites the buffer so
\* that it decodes to the handle's record, the reserved bytes being those
\* the buffer held before and the bytes after the record staying in place.
C10_Step ==
    /\ last'.op \in VaultOps => account' = account
    /\ last'.op = "save"
         => /\ last'.res.ok
            /\ handle' = handle
            /\ deserialize(account'.data).ok
            /\ deserialize(account'.data).vault = handle[1].vault
            /\ deserialize(account'.data).vault.reserved
                 = deserialize(account.data).vault.reserved
            /\ Len(account'.data) = Len(account.data)
            /\ SubSeq(account'.data, VaultLen + 1, Len(account.data))
                 = SubSeq(account.data, VaultLen + 1, Len(account.data))
            /\ [account' EXCEPT !.data = << >>] = [account EXCEPT !.data = << >>]

C10_MutateThenSave == [][C10_Step]_vars

\* a save that wrote a changed record holding more tokens than its capacity
C10_Witness ==
    /\ last.op = "save"
    /\ last.res.ok
    /\ account.data # last.pre.data
    /\ deserialize(account.data).vault = handle[1].vault
    /\ handle[1].vault.tokens_deposited > handle[1].vault.capacity
    /\ handle[1].vault.reserved # [i \in 1..ReservedLen |-> 0]

\* C11 as stated: a save through a handle whose account is not flagged
\* writable is reported as an error and does not overwrite the buffer.
C11_SaveRefused ==
    (last.op = "save" /\ ~last.pre.is_writable)
    => (~last.res.ok /\ account.data = last.pre.data)

\* C11 amended: save does not look at the writable flag: through a handle
\* got without the writability requirement on an account not flagged
\* writable it succeeds and overwrites the buffer with the handle's record;
\* the flag is checked by sanitize alone, and only when expect_writable is
\* given, where it fails with InvalidAccountData.
C11_SaveIgnoresWritable ==
    /\ (last.op = "save" /\ ~last.pre.is_writable)
         => /\ last.res.ok
            /\ deserialize(account.data).ok
            /\ deserialize(account.data).vault = handle[1].vault
    /\ (IsSanitize /\ last.arg.expect_writable /\ ~last.pre.is_writable)
         => (last.res = Err("InvalidAccountData") /\ handle = << >>)

\* a changed record written over the buffer of a read-only account
C11_Witness ==
    /\ last.op = "save"
    /\ ~last.pre.is_writable
    /\ last.res.ok
    /\ account.data # last.pre.data
    /\ deserialize(account.data).vault = handle[1].vault

\* ================================================ properties of FeeSpec
\* C12: each fee call returns floor(amount * rate / 10_000) for its own
\* rate when amount * rate fits the 64-bit word, fails with
\* FeeCalculationOverflow when it does not, and leaves the record as it was.
C12_FeeIsFloor ==
    /\ last.op = "calculate_deposit_fee"
         => /\ vault = last.pre
            /\ last.res =
                 IF last.arg * last.pre.deposit_fee_bps <= U64_MAX
                 THEN Ok((last.arg * last.pre.deposit_fee_bps) \div BPS_DENOMINATOR)
                 ELSE Err("FeeCalculationOverflow")
    /\ last.op = "calculate_withdraw_fee"
         => /\ vault = last.pre
            /\ last.res =
                 IF last.arg * last.pre.withdrawal_fee_bps <= U64_MAX
                 THEN Ok((last.arg * last.pre.withdrawal_fee_bps) \div BPS_DENOMINATOR)
                 ELSE Err("FeeCalculationOverflow")
    /\ (last.op \in {"calculate_deposit_fee", "calculate_withdraw_fee"}
        /\ (last.arg = 0 \/ (last.op = "calculate_deposit_fee"
                             /\ last.pre.deposit_fee_bps = 0)
                         \/ (last.op = "calculate_withdraw_fee"
                             /\ last.pre.withdrawal_fee_bps = 0)))
         => last.res = Ok(0)

\* a deposit fee that is rounded down, the withdrawal rate being another
C12_Witness ==
    /\ last.op = "calculate_deposit_fee"
    /\ last.pre.deposit_fee_bps # last.pre.withdrawal_fee_bps
    /\ last.res.ok
    /\ last.res.val > 0
    /\ (last.arg * last.pre.deposit_fee_bps) % BPS_DENOMINATOR # 0

\* ============================================== properties of CodecSpec
\* C13: the encoding of every record has the one length VaultLen and holds
\* bytes only, and decoding it gives back the record, field for field.
C13_RoundTrip ==
    /\ last.op = "serialize"
         => /\ Len(account.data) = VaultLen
            /\ \A i \in 1..Len(account.data) : account.data[i] \in Bytes
    /\ last.op = "deserialize"
         => /\ last.res.ok
            /\ handle = <<[vault |-> vault]>>
            /\ \A f \in DOMAIN vault : handle[1].vault[f] = vault[f]

\* a decoded record whose capacity has two different digits
C13_Witness ==
    /\ last.op = "deserialize"
    /\ last.res.ok
    /\ handle[1].vault = vault
    /\ vault.capacity % ByteBase # vault.capacity \div ByteBase
    /\ vault.reserved # [i \in 1..ReservedLen |-> 0]

\* ==================================== further properties of Spec
\* C14: increment_lrt_supply returns the new supply and stores it when
\* lrt_supply + amount fits the word; otherwise it returns the absent result
\* and leaves every field of the record as it was.
C14_IncrementLrtSupply ==
    last.op = "increment_lrt_supply"
      => IF last.pre.lrt_supply + last.arg <= U64_MAX
         THEN /\ last.res = Ok(last.pre.lrt_supply + last.arg)
              /\ vault = [last.pre EXCEPT !.lrt_supply = last.pre.lrt_supply + last.arg]
         ELSE /\ last.res = Err("None")
              /\ vault = last.pre

\* an increment of a non-zero supply that leaves the word
C14_Witness ==
    /\ last.op = "increment_lrt_supply"
    /\ last.pre.lrt_supply > 0
    /\ last.arg > 0
    /\ last.pre.lrt_supply + last.arg > U64_MAX
    /\ ~last.res.ok
    /\ vault = last.pre

\* C16: a successful deposit into a vault with tokens_deposited > 0 does not
\* raise the receipt units per deposited unit: S' * D <= S * D'.
C16_NoDilution ==
    (IsDeposit /\ last.res.ok /\ last.pre.tokens_deposited > 0)
      => vault.lrt_supply * last.pre.tokens_deposited
           <= last.pre.lrt_supply * vault.tokens_deposited

\* a successful deposit whose mint was rounded down: the ratio falls strictly
C16_Witness ==
    /\ IsDeposit
    /\ last.res.ok
    /\ last.pre.tokens_deposited > 0
    /\ last.pre.lrt_supply > 0
    /\ last.arg > 0
    /\ vault.lrt_supply * last.pre.tokens_deposited
         < last.pre.lrt_supply * vault.tokens_deposited

\* The fields no operation of the record assigns.
Frozen(v) ==
    <<v.account_type, v.base, v.bump, v.vault_index, v.lrt_mint,
      v.supported_mint, v.deposit_fee_bps, v.withdrawal_fee_bps, v.reserved>>

\* C17: every operation leaves the frozen fields as they were, and each
\* setter succeeds and makes the record differ from the one before in its
\* own field only, which takes the argument whatever the other fields hold.
C17_Frame ==
    /\ last.op # "none" => Frozen(vault) = Frozen(last.pre)
    /\ last.op = "set_tokens_deposited"
         => last.res.ok /\ vault = [last.pre EXCEPT !.tokens_deposited = last.arg]
    /\ last.op = "set_lrt_supply"
         => last.res.ok /\ vault = [last.pre EXCEPT !.lrt_supply = last.arg]
    /\ last.op = "set_capacity"
         => last.res.ok /\ vault = [last.pre EXCEPT !.capacity = last.arg]
    /\ last.op = "set_admin"
         => last.res.ok /\ vault = [last.pre EXCEPT !.admin = last.arg]
    /\ last.op = "set_delegation_admin"
         => last.res.ok /\ vault = [last.pre EXCEPT !.delegation_admin = last.arg]

\* set_tokens_deposited has put tokens_deposited above the capacity
C17_Witness ==
    /\ last.op = "set_tokens_deposited"
    /\ last.res.ok
    /\ last.pre.tokens_deposited <= last.pre.capacity
    /\ vault.tokens_deposited = last.arg
    /\ vault.tokens_deposited > vault.capacity

\* ================================================ properties of NewSpec
\* C15: the record Vault::new returns has delegation_admin and fee_owner
\* equal to admin, no mint-burn authority, the largest capacity, both
\* counters zero, zeroed reserved bytes, passes is_struct_valid, and carries
\* the two fee rates it was given, whatever they are.
C15_NewRecord ==
    last.op = "new"
      => /\ vault.admin = last.arg.admin
         /\ vault.delegation_admin = last.arg.admin
         /\ vault.fee_owner = last.arg.admin
         /\ mint_burn_authority(vault) = None
         /\ vault.capacity = U64_MAX
         /\ vault.lrt_supply = 0 /\ vault.tokens_deposited = 0
         /\ \A i \in DOMAIN vault.reserved : vault.reserved[i] = 0
         /\ is_struct_valid(vault)
         /\ vault.deposit_fee_bps = last.arg.deposit_fee_bps
         /\ vault.withdrawal_fee_bps = last.arg.withdrawal_fee_bps
         /\ vault.base = last.arg.base /\ vault.bump = last.arg.bump
         /\ vault.lrt_mint = last.arg.lrt_mint
         /\ vault.supported_mint = last.arg.supported_mint
         /\ vault.vault_index = last.arg.lrt_index

\* a record built with a non-default admin and fee rates above the divisor
C15_Witness ==
    /\ last.op = "new"
    /\ last.arg.admin # PubkeyDefault
    /\ vault.fee_owner = last.arg.admin
    /\ vault.deposit_fee_bps > BPS_DENOMINATOR
    /\ vault.withdrawal_fee_bps > BPS_DENOMINATOR

\* C18: from Vault::new, under deposits and set_capacity only, lrt_supply
\* equals tokens_deposited in every state, and a successful deposit returns
\* the amount deposited and adds it to both counters.
C18_OneToOne ==
    /\ vault.lrt_supply = vault.tokens_deposited
    /\ (IsDeposit /\ last.res.ok)
         => /\ last.res.val = last.arg
            /\ vault.tokens_deposited = last.pre.tokens_deposited + last.arg
            /\ vault.lrt_supply = last.pre.lrt_supply + last.arg

\* a later deposit, after the capacity was lowered, of an amount the earlier
\* total does not divide
C18_Witness ==
    /\ IsDeposit
    /\ last.res.ok
    /\ last.pre.tokens_deposited > 1
    /\ last.arg % last.pre.tokens_deposited # 0
    /\ vault.capacity < U64_MAX
    /\ vault.lrt_supply = vault.tokens_deposited

\* ============================================ further properties of LoadSpec
\* C19: once a record has been saved through a handle, a load of the account
\* with the program id that owns it, and with a writability requirement the
\* account meets, succeeds and hands out exactly the record that was saved.
C19_ReloadAfterSave ==
    (/\ IsSanitize
     /\ Len(count.saved) = 1
     /\ last.arg.program_id = account.owner
     /\ last.arg.expect_writable => account.is_writable)
      => /\ last.res.ok
         /\ handle = <<[vault |-> count.saved[1]]>>

\* a reload has handed out a saved record whose tokens_deposited was set
\* above its capacity
C19_Witness ==
    /\ IsSanitize
    /\ Len(count.saved) = 1
    /\ last.res.ok
    /\ handle = <<[vault |-> count.saved[1]]>>
    /\ count.saved[1].tokens_deposited > count.saved[1].capacity
    /\ deserialize(account.data).vault = count.saved[1]

\* ================================================ properties of RaceSpec
\* the record in the buffer
InBuffer == deserialize(account.data).vault

\* C20: every load made before the first save hands out the record the
\* buffer started with; a save by one handle leaves the buffer holding the
\* encoding of that handle's record alone, so tokens_deposited in the buffer
\* is the starting value plus that handle's deposits, and is below the
\* starting value plus both handles' deposits once the other handle has
\* saved a deposit of a positive amount.
C20_LostUpdate ==
    /\ (last.op = "sanitize" /\ last.res.ok)
         => handle[Len(handle)].vault = vault
    /\ last.op = "save"
         => LET i == last.arg
            IN  /\ last.res.ok
                /\ account.data = serialize(handle[i].vault)
                /\ InBuffer = handle[i].vault
                /\ InBuffer.tokens_deposited
                     = vault.tokens_deposited + count.deposited[i]
                /\ \A j \in 1..Len(handle) :
                     (j # i /\ count.saves[j] > 0 /\ count.deposited[j] > 0)
                       => InBuffer.tokens_deposited
                            < vault.tokens_deposited + count.deposited[1]
                                + count.deposited[2]

\* both handles were loaded, both deposited a positive amount, and the
\* second of two saves has just been made
C20_Witness ==
    /\ last.op = "save"
    /\ Len(handle) = 2
    /\ Len(count.saved) = 2
    /\ count.saves[1] > 0 /\ count.saves[2] > 0
    /\ count.deposited[1] > 0 /\ count.deposited[2] > 0
    /\ count.saved[1] # count.saved[2]
    /\ InBuffer = count.saved[2]
    /\ InBuffer.tokens_deposited
         < vault.tokens_deposited + count.deposited[1] + count.deposited[2]

====
